---- MODULE Spec2Model ----
(***************************************************************************)
(* The notebooks of the SSL tutorial, cell by cell.                         *)
(*                                                                         *)
(*   Spec, SpecRerun   Notebook 6, cell 84bd70b7: the gallery features     *)
(*                     left in the global img_features by Notebook 5 are   *)
(*                     copied into a FAISS flat inner-product index, a     *)
(*                     query image is embedded and normalised, and         *)
(*                     index.search returns the arrays D (scores) and I    *)
(*                     (row numbers).  One action per statement.           *)
(*   SpecTrain         Notebook 6, cells 89054666 and 9622dbd9: a linear   *)
(*                     classifier trained on the frozen image encoder.     *)
(*   SpecRetrieval     Notebook 5, cell 9d460246: argmax retrieval.        *)
(*   SpecMAE           Notebook 4, cell 957c70c6: the mask of the MAE.     *)
(*   SpecKernel        the code cells of Notebooks 5 and 6 in document     *)
(*                     order: which names each statement finds bound.      *)
(*                                                                         *)
(* Numbers.  A float vector is a record [v, den2] that stands for the      *)
(* vector v / sqrt(den2), v a tuple of integers: a raw encoder output has  *)
(* den2 = 1 and x / x.norm() has den2 = v.v, so that normalisation and     *)
(* inner products are exact.  A score [num, den2] stands for               *)
(* num / sqrt(den2).                                                       *)
(***************************************************************************)
EXTENDS Integers, Sequences, FiniteSets, TLC

\* Bounds of the model.
MaxN == 2          \* img_features has at most MaxN rows
MaxDim == 2        \* embedding dimensions are in 1..MaxDim
MaxRuns == 2       \* times the cell is run in one session
MaxImageSize == 3  \* a ViT's image_size and patch_size are in 1..MaxImageSize
MaxBatches == 2    \* a loader has at most MaxBatches batches

\* index.search(query_feat_np, k=5)
TopK == 5

\* for epoch in range(10)
Epochs == 10

\* facebook/vit-mae-base: (224/16)^2 = 196 patches
ViTMaeImageSize == 224
ViTMaePatchSize == 16

VARIABLES
    pc,                  \* the statement of the cell that runs next
    img_features,        \* global left by Notebook 5: array of shape [N, d]
    embed_dim,           \* image_encoder.embed_dim
    k,                   \* the k handed to index.search: 5 in the cell, any of 1..TopK here;
                         \* 0 until the cell has handed it over
    img_features_array,  \* line 125
    index,               \* line 128: the faiss.IndexFlatIP object
    query_feat,          \* lines 132-133
    query_feat_np,       \* line 134
    D, I,                \* line 135: arrays of shape [1, k]
    printed,             \* line 136: what the cell prints
    err,                 \* the exception that ended the cell, or "none"
    tie_order,           \* how the installed FAISS orders equal scores, "unknown"
                         \* until its first search
    query_image,         \* what image_encoder maps the global query_image to
    run,                 \* how many times the cell has been started
    first                \* index, D and I as the first run of the cell left them

\* Notebook 4, cell 957c70c6 (the MAE reconstruction)
VARIABLES
    pc4,                 \* the statement of the cell that runs next
    image_size,          \* model.config.image_size
    patch_size,          \* model.config.patch_size
    num_patches,         \* line 150
    mask                 \* line 151: one boolean per patch

\* Notebook 5, cell 9d460246 (text-to-image retrieval)
VARIABLES
    pc5,                 \* the statement of the cell that runs next
    image_features,      \* lines 145, 148: array of shape [len(image_list), d]
    text_features,       \* lines 146, 149: array of shape [1, d]
    sims,                \* line 151: a tensor, [shape, data]
    best_idx             \* line 152

\* Notebook 6, cells 89054666 and 9622dbd9 (a classifier on the frozen encoder)
VARIABLES
    pc6,                 \* the statement that runs next
    image_encoder,       \* line 41: its parameters, [weight, requires_grad, grad]
    classifier,          \* line 48: its parameters, [weight, requires_grad, grad]
    optimizer,           \* line 51: the modules whose parameters it was given
    train_loader,        \* the batches of the training set
    val_loader,          \* the batches of the validation set: a batch is its
                         \* number of labels
    epoch,               \* line 70: the loop variable, -1 before the loop
    batch,               \* how many batches the running inner loop has taken
    graph,               \* the modules whose parameters the last loss was
                         \* computed from with gradients recorded
    loss,                \* line 79: loss.item()
    total_loss,          \* lines 72, 83
    avg_loss,            \* line 84: a quotient [num, den]
    correct, total,      \* lines 87, 94, 95
    val_acc,             \* line 96: a quotient [num, den]
    lines,               \* line 97: how many lines have been printed
    last_line,           \* line 97: the last line printed
    err6                 \* the exception that ended the cell, or "none"

\* The kernel in which the code cells of Notebook 5 and then of Notebook 6
\* are executed in document order
VARIABLES
    next_cell,           \* the number of the code cell that runs next, from 1
    user_names,          \* the names bound in the kernel by no cell
    cell_names,          \* the names bound by the cells executed so far
    outside_reads,       \* the names a cell has read that no cell had bound
    errors               \* the exceptions that ended cells: [cell, line, kind, name]

\* the state of cell 84bd70b7
searchVars == <<pc, img_features, embed_dim, k, img_features_array, index,
                query_feat, query_feat_np, D, I, printed, err,
                tie_order, query_image, run, first>>

maeVars == <<pc4, image_size, patch_size, num_patches, mask>>

retrievalVars == <<pc5, image_features, text_features, sims, best_idx>>

trainVars == <<pc6, image_encoder, classifier, optimizer, train_loader,
               val_loader, epoch, batch, graph, loss, total_loss, avg_loss,
               correct, total, val_acc, lines, last_line, err6>>

kernelVars == <<next_cell, user_names, cell_names, outside_reads, errors>>

\* the state of the cells other than cell 84bd70b7
otherCells == <<maeVars, retrievalVars, trainVars, kernelVars>>

vars == <<searchVars, otherCells>>

----------------------------------------------------------------------------
(* Vectors and scores *)

Min(a, b) == IF a <= b THEN a ELSE b

Dims == 1..MaxDim

\* the components of an encoder output
Components == {0, 1}

\* the encoder outputs of dimension d; an encoder does not output the zero
\* vector
Tuples(d) == {t \in [1..d -> Components] : \E i \in 1..d : t[i] # 0}

RECURSIVE DotUpTo(_, _, _)
DotUpTo(a, b, n) == IF n = 0 THEN 0 ELSE a[n] * b[n] + DotUpTo(a, b, n - 1)

\* sum of the componentwise products of two integer tuples of equal length
Dot(a, b) == DotUpTo(a, b, Len(a))

\* an encoder output: the raw float vector v
Raw(v) == [v |-> v, den2 |-> 1]

\* x / x.norm(): the squared norm of v / sqrt(den2) is v.v / den2, so the
\* quotient is v / sqrt(v.v)
Normalize(x) == [v |-> x.v, den2 |-> Dot(x.v, x.v)]

\* the inner product of two float vectors of the same dimension
InnerProduct(a, b) == [num |-> Dot(a.v, b.v), den2 |-> a.den2 * b.den2]

\* n |-> sign(n) * n^2, which is monotone
SignedSquare(n) == IF n >= 0 THEN n * n ELSE 0 - n * n

\* s < t for scores num / sqrt(den2), compared through their signed squares
ScoreLess(s, t) == SignedSquare(s.num) * t.den2 < SignedSquare(t.num) * s.den2

ScoreEq(s, t) == SignedSquare(s.num) * t.den2 = SignedSquare(t.num) * s.den2

\* the score FAISS leaves in a result slot it did not fill (-FLT_MAX for an
\* inner-product index); never compared with a real score
NEG_FLT_MAX == [num |-> -1, den2 |-> 0]

\* the label FAISS leaves in a result slot it did not fill
NO_LABEL == -1

----------------------------------------------------------------------------
(* NumPy arrays of shape [n, d] *)

Array(rows, d) == [shape |-> <<Len(rows), d>>, rows |-> rows]

EmptyArray == Array(<<>>, 0)

RECURSIVE SeqsUpTo(_, _)
SeqsUpTo(S, n) ==
    IF n = 0 THEN {<<>>}
    ELSE LET shorter == SeqsUpTo(S, n - 1)
         IN  shorter \cup {Append(s, x) : s \in {t \in shorter : Len(t) = n - 1}, x \in S}

\* what model.get_image_features can have produced for N <= MaxN images
RawArrays ==
    UNION {{Array([i \in 1..Len(rows) |-> Raw(rows[i])], d) : rows \in SeqsUpTo(Tuples(d), MaxN)} : d \in Dims}

\* features that are left as the encoder produced them
NormalizeRows_raw(a) == a

\* Notebook 5, line 256: img_features / img_features.norm(dim=1, keepdim=True)
NormalizeRows(a) == Array([i \in 1..Len(a.rows) |-> Normalize(a.rows[i])], a.shape[2])

\* The global img_features when cell 84bd70b7 starts: the features of a
\* gallery of N images ("shape [N, d] for N images", line 124) as Notebook 5
\* computes and normalises them.
FeatureArrays == {NormalizeRows(a) : a \in RawArrays}

----------------------------------------------------------------------------
(* The FAISS flat inner-product index (faiss.IndexFlatIP) *)

\* faiss.IndexFlatIP(d): an empty index of dimension d
IndexFlatIP(d) == [d |-> d, ntotal |-> 0, xb |-> <<>>]

\* the name index before line 128 has run
Unbound == IndexFlatIP(0)

\* an add that does not check the dimension of its rows
AddAssert_unchecked(idx, x) == TRUE

\* the wrapper of add: n, d = x.shape; assert d == self.d
AddAssert(idx, x) == x.shape[2] = idx.d

\* the wrapper of search: n, d = x.shape; assert d == self.d; assert k > 0
SearchAssert(idx, x, kk) == x.shape[2] = idx.d /\ kk > 0

\* an add that appends the rows and leaves the count as it was
add_c_staleCount(idx, x) == [idx EXCEPT !.xb = @ \o x.rows]

\* an add that starts copying at the second row
add_c_skipsFirstRow(idx, x) ==
    [idx EXCEPT !.ntotal = @ + Len(SubSeq(x.rows, 2, Len(x.rows))),
                !.xb = @ \o SubSeq(x.rows, 2, Len(x.rows))]

\* IndexFlat::add: the n rows of x are appended to the stored vectors
add_c(idx, x) == [idx EXCEPT !.ntotal = @ + x.shape[1], !.xb = @ \o x.rows]

\* the score of stored vector number i (numbered from 0) against query row q
ScoreOf(idx, q, i) == InnerProduct(q, idx.xb[i + 1])

\* stored vector j is ahead of stored vector i in the top-k selection: the
\* result heap replaces its worst entry only by a strictly better score, so
\* of two equal scores at the cut-off the one added first (the lower number)
\* is kept
Ahead(idx, q, j, i) ==
    \/ ScoreLess(ScoreOf(idx, q, i), ScoreOf(idx, q, j))
    \/ ScoreEq(ScoreOf(idx, q, i), ScoreOf(idx, q, j)) /\ j < i

\* the number of stored vectors ahead of vector i
Rank(idx, q, i) == Cardinality({j \in 0..(idx.ntotal - 1) : Ahead(idx, q, j, i)})

\* the labels of the min(kk, ntotal) vectors the heap holds after the scan
Selected(idx, q, kk) == {i \in 0..(idx.ntotal - 1) : Rank(idx, q, i) < kk}

\* The orders heap_reorder can leave the selected labels in: scores never
\* increase along the row; the order of equal scores is not part of FAISS's
\* contract and differs between its versions and code paths.
Orders(idx, q, kk) ==
    LET sel == Selected(idx, q, kk)
        m == Cardinality(sel)
    IN  {p \in [1..m -> sel] :
            /\ \A a, b \in 1..m : a # b => p[a] # p[b]
            /\ \A a, b \in 1..m :
                   a < b => ~ScoreLess(ScoreOf(idx, q, p[a]), ScoreOf(idx, q, p[b]))}

\* IndexFlat::search for one query row: the rows (distances, labels) of
\* length kk; the slots after the min(kk, ntotal) results keep the heap's
\* initial content, score -FLT_MAX and label -1
search_c(idx, q, kk) ==
    {<<[a \in 1..kk |-> IF a <= Len(p) THEN ScoreOf(idx, q, p[a]) ELSE NEG_FLT_MAX],
       [a \in 1..kk |-> IF a <= Len(p) THEN p[a] ELSE NO_LABEL]>> : p \in Orders(idx, q, kk)}

\* The orders of equal scores: one installation of FAISS scans the stored
\* vectors in sequence and is a function of its input, it leaves equal scores
\* with the lower label first or with the higher label first.
TieOrders == {"ascending", "descending"}

\* the row of labels has its equal scores in the installation's order
TieOrdered(idx, q, labels, order) ==
    \A a, b \in 1..Len(labels) :
        (a < b /\ labels[b] # NO_LABEL
               /\ ScoreEq(ScoreOf(idx, q, labels[a]), ScoreOf(idx, q, labels[b]))) =>
            IF order = "ascending" THEN labels[a] < labels[b] ELSE labels[a] > labels[b]

\* what index.search returns on one installation: the one member of
\* search_c whose equal scores are in the installation's order
search(idx, q, kk, order) ==
    {r \in search_c(idx, q, kk) : TieOrdered(idx, q, r[2], order)}

----------------------------------------------------------------------------
(* Cell 84bd70b7, statement by statement *)

RECURSIVE SumSquares(_, _)
SumSquares(rows, n) ==
    IF n = 0 THEN 0 ELSE Dot(rows[n].v, rows[n].v) + SumSquares(rows, n - 1)

\* a division that is left out: the tensor keeps its length
DivideByNorm_unnormalised(a) == a

\* x / x.norm() for a raw tensor x: norm() without a dim argument is the norm
\* of the whole tensor, and every row is divided by it
DivideByNorm(a) ==
    Array([i \in 1..Len(a.rows) |->
              [v |-> a.rows[i].v, den2 |-> SumSquares(a.rows, Len(a.rows))]],
          a.shape[2])

\* image_encoder(preprocess(query_image).unsqueeze(0)): one row, of the
\* encoder's output dimension
QueryFeatures == UNION {{Array(<<Raw(v)>>, d) : v \in Tuples(d)} : d \in Dims}

\* cell 957c70c6 of Notebook 4 has not been run
MaeNotRun ==
    /\ pc4 = "not_run"
    /\ image_size = 0
    /\ patch_size = 0
    /\ num_patches = 0
    /\ mask = <<>>

\* cell 9d460246 of Notebook 5 has not been run
RetrievalNotRun ==
    /\ pc5 = "not_run"
    /\ image_features = EmptyArray
    /\ text_features = EmptyArray
    /\ sims = [shape |-> <<0>>, data |-> <<>>]
    /\ best_idx = -1

\* the parameters of a module that has been created, before any training
NewParameters == [weight |-> 0, requires_grad |-> TRUE, grad |-> "None"]

\* a quotient that has not been computed
NoQuotient == [num |-> 0, den |-> 0]

\* cells 89054666 and 9622dbd9 of Notebook 6 have not been run, and the
\* loaders have no value
TrainNotRunYet ==
    /\ image_encoder = NewParameters
    /\ classifier = NewParameters
    /\ optimizer = {}
    /\ epoch = -1
    /\ batch = 0
    /\ graph = {}
    /\ loss = 0
    /\ total_loss = 0
    /\ avg_loss = NoQuotient
    /\ correct = 0
    /\ total = 0
    /\ val_acc = NoQuotient
    /\ lines = 0
    /\ last_line = <<>>
    /\ err6 = "none"

TrainNotRun ==
    /\ pc6 = "not_run"
    /\ train_loader = <<>>
    /\ val_loader = <<>>
    /\ TrainNotRunYet

\* no notebook is being executed cell by cell
KernelNotRun ==
    /\ next_cell = 0
    /\ user_names = {}
    /\ cell_names = {}
    /\ outside_reads = {}
    /\ errors = {}

\* no cell other than cell 84bd70b7 has been run
OtherCellsNotRun ==
    /\ MaeNotRun
    /\ RetrievalNotRun
    /\ TrainNotRun
    /\ KernelNotRun

\* cell 84bd70b7 has not been run
SearchNotRun ==
    /\ pc = "not_run"
    /\ img_features = EmptyArray
    /\ embed_dim = 0
    /\ k = 0
    /\ img_features_array = EmptyArray
    /\ index = Unbound
    /\ query_feat = EmptyArray
    /\ query_feat_np = EmptyArray
    /\ D = <<>>
    /\ I = <<>>
    /\ printed = <<>>
    /\ err = "none"
    /\ tie_order = "unknown"
    /\ query_image = EmptyArray
    /\ run = 1
    /\ first = [index |-> Unbound, D |-> <<>>, I |-> <<>>]

Init ==
    /\ OtherCellsNotRun
    /\ pc = "to_numpy"
    /\ img_features \in FeatureArrays
    /\ embed_dim \in Dims
    /\ k = 0
    /\ img_features_array = EmptyArray
    /\ index = Unbound
    /\ query_feat = EmptyArray
    /\ query_feat_np = EmptyArray
    /\ D = <<>>
    /\ I = <<>>
    /\ printed = <<>>
    /\ err = "none"
    /\ tie_order = "unknown"
    /\ query_image = EmptyArray
    /\ run = 1
    /\ first = [index |-> Unbound, D |-> <<>>, I |-> <<>>]

\* img_features_array = img_features.cpu().numpy().astype('float32'): the
\* features are float32 already, the copy has the same values
ToNumpy ==
    /\ pc = "to_numpy"
    /\ img_features_array' = img_features
    /\ pc' = "new_index"
    /\ UNCHANGED <<otherCells, tie_order, query_image, run, first, img_features, embed_dim, k, index, query_feat, query_feat_np,
                   D, I, printed, err>>

\* a statement that creates the index only when the name is not bound yet
NewIndex_keepsIndex ==
    /\ pc = "new_index"
    /\ index' = IF index = Unbound THEN IndexFlatIP(embed_dim) ELSE index
    /\ pc' = "add"
    /\ UNCHANGED <<otherCells, tie_order, query_image, run, first, img_features, embed_dim, k, img_features_array, query_feat,
                   query_feat_np, D, I, printed, err>>

\* index = faiss.IndexFlatIP(image_encoder.embed_dim)
NewIndex ==
    /\ pc = "new_index"
    /\ index' = IndexFlatIP(embed_dim)
    /\ pc' = "add"
    /\ UNCHANGED <<otherCells, tie_order, query_image, run, first, img_features, embed_dim, k, img_features_array, query_feat,
                   query_feat_np, D, I, printed, err>>

\* an add that copies the rows first and checks their dimension afterwards
IndexAdd_assertsAfterAdd ==
    /\ pc = "add"
    /\ index' = add_c(index, img_features_array)
    /\ IF AddAssert(index, img_features_array)
       THEN pc' = "encode_query" /\ err' = err
       ELSE pc' = "failed" /\ err' = "AssertionError"
    /\ UNCHANGED <<otherCells, tie_order, query_image, run, first, img_features, embed_dim, k, img_features_array, query_feat,
                   query_feat_np, D, I, printed>>

\* index.add(img_features_array)
IndexAdd ==
    /\ pc = "add"
    /\ IF AddAssert(index, img_features_array)
       THEN /\ index' = add_c(index, img_features_array)
            /\ pc' = "encode_query"
            /\ err' = err
       ELSE /\ index' = index
            /\ pc' = "failed"
            /\ err' = "AssertionError"
    /\ UNCHANGED <<otherCells, tie_order, query_image, run, first, img_features, embed_dim, k, img_features_array, query_feat,
                   query_feat_np, D, I, printed>>

\* query_feat = image_encoder(preprocess(query_image).unsqueeze(0).to(device))
EncodeQuery ==
    /\ pc = "encode_query"
    /\ IF query_image = EmptyArray
       THEN query_image' \in QueryFeatures
       ELSE query_image' = query_image
    /\ query_feat' = query_image'
    /\ pc' = "normalize_query"
    /\ UNCHANGED <<otherCells, tie_order, run, first, img_features, embed_dim, k, img_features_array, index,
                   query_feat_np, D, I, printed, err>>

\* query_feat = query_feat / query_feat.norm()
NormalizeQuery ==
    /\ pc = "normalize_query"
    /\ query_feat' = DivideByNorm(query_feat)
    /\ pc' = "query_to_numpy"
    /\ UNCHANGED <<otherCells, tie_order, query_image, run, first, img_features, embed_dim, k, img_features_array, index,
                   query_feat_np, D, I, printed, err>>

\* query_feat_np = query_feat.cpu().numpy().astype('float32')
QueryToNumpy ==
    /\ pc = "query_to_numpy"
    /\ query_feat_np' = query_feat
    /\ pc' = "search"
    /\ UNCHANGED <<otherCells, tie_order, query_image, run, first, img_features, embed_dim, k, img_features_array, index,
                   query_feat, D, I, printed, err>>

\* a search that also stores the query in the index
IndexSearch_addsQuery ==
    /\ pc = "search"
    /\ IF k = 0 THEN k' \in 1..TopK ELSE k' = k
    /\ IF SearchAssert(index, query_feat_np, k')
       THEN /\ IF tie_order = "unknown"
               THEN tie_order' \in TieOrders
               ELSE tie_order' = tie_order
            /\ \E r \in search(index, query_feat_np.rows[1], k', tie_order') :
                   D' = <<r[1]>> /\ I' = <<r[2]>>
            /\ index' = add_c(index, query_feat_np)
            /\ pc' = "print"
            /\ err' = err
       ELSE /\ tie_order' = tie_order
            /\ D' = D
            /\ I' = I
            /\ index' = index
            /\ pc' = "failed"
            /\ err' = "AssertionError"
    /\ UNCHANGED <<otherCells, query_image, run, first, img_features, embed_dim,
                   img_features_array, query_feat, query_feat_np, printed>>

\* D, I = index.search(query_feat_np, k=5)
IndexSearch ==
    /\ pc = "search"
    /\ IF k = 0 THEN k' \in 1..TopK ELSE k' = k
    /\ IF SearchAssert(index, query_feat_np, k')
       THEN /\ IF tie_order = "unknown"
               THEN tie_order' \in TieOrders
               ELSE tie_order' = tie_order
            /\ \E r \in search(index, query_feat_np.rows[1], k', tie_order') :
                   D' = <<r[1]>> /\ I' = <<r[2]>>
            /\ pc' = "print"
            /\ err' = err
       ELSE /\ tie_order' = tie_order
            /\ D' = D
            /\ I' = I
            /\ pc' = "failed"
            /\ err' = "AssertionError"
    /\ UNCHANGED <<otherCells, query_image, run, first, img_features, embed_dim,
                   img_features_array, index, query_feat, query_feat_np, printed>>

\* print("Top 5 similar image indices:", I[0])
PrintTop ==
    /\ pc = "print"
    /\ printed' = I[1]
    /\ pc' = "done"
    /\ UNCHANGED <<otherCells, tie_order, query_image, run, first, img_features, embed_dim, k, img_features_array, index,
                   query_feat, query_feat_np, D, I, err>>

Next ==
    \/ ToNumpy
    \/ NewIndex
    \/ IndexAdd
    \/ EncodeQuery
    \/ NormalizeQuery
    \/ QueryToNumpy
    \/ IndexSearch
    \/ PrintTop

Spec == Init /\ [][Next]_vars

\* The cell is run again in the same session: every global keeps its value
\* and the statements start over.  index, D and I of the first run are kept
\* aside for comparison.
RunCellAgain ==
    /\ pc = "done"
    /\ run < MaxRuns
    /\ run' = run + 1
    /\ first' = IF run = 1 THEN [index |-> index, D |-> D, I |-> I] ELSE first
    /\ pc' = "to_numpy"
    /\ UNCHANGED <<otherCells, tie_order, query_image, img_features, embed_dim, k,
                   img_features_array, index, query_feat, query_feat_np,
                   D, I, printed, err>>

NextRerun ==
    \/ Next
    \/ RunCellAgain

SpecRerun == Init /\ [][NextRerun]_vars

----------------------------------------------------------------------------
(* Notebook 4, cell 957c70c6: the mask of the MAE reconstruction *)

\* the configurations of a ViT: a square image of image_size pixels a side,
\* cut into square patches of patch_size pixels a side
ViTConfigs ==
    {c \in [image_size : 1..MaxImageSize, patch_size : 1..MaxImageSize] :
        c.patch_size <= c.image_size}

\* what torch.rand can return for one patch, in hundredths: torch.rand draws
\* from [0, 1)
RandHundredths == {74, 75, 76}

\* mask 75% of patches: the threshold of line 151, in hundredths
MaskThreshold == 75

\* torch.rand(num_patches) < 0.75, for the draws u
LessThanThreshold(u) == [i \in 1..Len(u) |-> u[i] < MaskThreshold]

\* the number of masked patches of a mask
RECURSIVE Masked(_, _)
Masked(m, n) ==
    IF n = 0 THEN 0 ELSE (IF m[n] THEN 1 ELSE 0) + Masked(m, n - 1)

InitMAE ==
    /\ SearchNotRun
    /\ KernelNotRun
    /\ RetrievalNotRun
    /\ TrainNotRun
    /\ pc4 = "num_patches"
    /\ \E c \in ViTConfigs :
           /\ image_size = c.image_size
           /\ patch_size = c.patch_size
    /\ num_patches = 0
    /\ mask = <<>>

\* num_patches = (model.config.image_size // model.config.patch_size) ** 2
NumPatches ==
    /\ pc4 = "num_patches"
    /\ num_patches' = (image_size \div patch_size) * (image_size \div patch_size)
    /\ pc4' = "mask"
    /\ UNCHANGED <<searchVars, retrievalVars, trainVars, kernelVars, image_size, patch_size, mask>>

\* mask = torch.rand(num_patches) < 0.75
DrawMask ==
    /\ pc4 = "mask"
    /\ \E u \in [1..num_patches -> RandHundredths] :
           mask' = LessThanThreshold(u)
    /\ pc4' = "forward"
    /\ UNCHANGED <<searchVars, retrievalVars, trainVars, kernelVars, image_size, patch_size, num_patches>>

NextMAE ==
    \/ NumPatches
    \/ DrawMask

SpecMAE == InitMAE /\ [][NextMAE]_vars

----------------------------------------------------------------------------
(* Notebook 5, cell 9d460246: which image of a gallery matches a text *)

\* model.get_image_features for a gallery of 1..MaxN images
GalleryFeatures == {a \in RawArrays : a.shape[1] >= 1}

\* x.squeeze(): the dimensions of size 1 are dropped
Squeeze(shape) == SelectSeq(shape, LAMBDA n : n # 1)

\* an argmax that returns the index of the last maximal value
RECURSIVE ArgMaxUpTo_lastMaximal(_, _)
ArgMaxUpTo_lastMaximal(data, n) ==
    IF n = 1
    THEN 0
    ELSE IF ScoreLess(data[n], data[ArgMaxUpTo_lastMaximal(data, n - 1) + 1])
         THEN ArgMaxUpTo_lastMaximal(data, n - 1)
         ELSE n - 1

\* torch.argmax over the first n entries of the flattened tensor: the index
\* (numbered from 0) of the first maximal value
RECURSIVE ArgMaxUpTo(_, _)
ArgMaxUpTo(data, n) ==
    IF n = 1
    THEN 0
    ELSE IF ScoreLess(data[ArgMaxUpTo(data, n - 1) + 1], data[n])
         THEN n - 1
         ELSE ArgMaxUpTo(data, n - 1)

InitRetrieval ==
    /\ SearchNotRun
    /\ KernelNotRun
    /\ MaeNotRun
    /\ TrainNotRun
    /\ pc5 = "normalize_images"
    /\ image_features \in GalleryFeatures
    /\ text_features \in {q \in QueryFeatures : q.shape[2] = image_features.shape[2]}
    /\ sims = [shape |-> <<0>>, data |-> <<>>]
    /\ best_idx = -1

\* image_features = image_features / image_features.norm(p=2, dim=-1, keepdim=True)
NormalizeImageFeatures ==
    /\ pc5 = "normalize_images"
    /\ image_features' = NormalizeRows(image_features)
    /\ pc5' = "normalize_text"
    /\ UNCHANGED <<searchVars, maeVars, trainVars, kernelVars, text_features, sims, best_idx>>

\* text_features = text_features / text_features.norm(p=2, dim=-1, keepdim=True)
NormalizeTextFeatures ==
    /\ pc5 = "normalize_text"
    /\ text_features' = NormalizeRows(text_features)
    /\ pc5' = "sims"
    /\ UNCHANGED <<searchVars, maeVars, trainVars, kernelVars, image_features, sims, best_idx>>

\* sims = (image_features @ text_features.T).squeeze()
Sims ==
    /\ pc5 = "sims"
    /\ sims' = [shape |-> Squeeze(<<image_features.shape[1], text_features.shape[1]>>),
                data |-> [i \in 1..image_features.shape[1] |->
                             InnerProduct(image_features.rows[i], text_features.rows[1])]]
    /\ pc5' = "argmax"
    /\ UNCHANGED <<searchVars, maeVars, trainVars, kernelVars, image_features, text_features, best_idx>>

\* best_idx = sims.argmax().item()
BestIdx ==
    /\ pc5 = "argmax"
    /\ best_idx' = ArgMaxUpTo(sims.data, Len(sims.data))
    /\ pc5' = "print"
    /\ UNCHANGED <<searchVars, maeVars, trainVars, kernelVars, image_features, text_features, sims>>

NextRetrieval ==
    \/ NormalizeImageFeatures
    \/ NormalizeTextFeatures
    \/ Sims
    \/ BestIdx

SpecRetrieval == InitRetrieval /\ [][NextRetrieval]_vars

----------------------------------------------------------------------------
(* Notebook 6, cells 89054666 and 9622dbd9: a linear classifier is trained  *)
(* on the features of the frozen image encoder.  The encoder, the          *)
(* classifier and the criterion are not computed: a parameter tensor is    *)
(* the number of times it has been updated, and a loss and a number of     *)
(* correct predictions are whatever the networks can give.                 *)

\* the numbers of labels a batch can have
BatchSizes == {1, 2}

\* the values loss.item() can have
Losses == {1, 2}

\* the loaders of at most MaxBatches batches
Loaders(batches) == UNION {[1..n -> batches] : n \in 0..MaxBatches}

\* param.requires_grad = False / True for every parameter of the module
RequiresGrad(module, flag) == [module EXCEPT !.requires_grad = flag]

\* optimizer.zero_grad() on a module's parameters, if the optimizer has them
ZeroGradOf(module, name) ==
    IF name \in optimizer THEN [module EXCEPT !.grad = "None"] ELSE module

\* loss.backward() on a module's parameters: a gradient is stored in each
\* parameter the loss was computed from that requires one
BackwardInto(module, name) ==
    IF name \in graph /\ module.requires_grad
    THEN [module EXCEPT !.grad = "set"]
    ELSE module

\* a step that moves every parameter it is asked about
StepOf_everyParameter(module, name) == [module EXCEPT !.weight = @ + 1]

\* optimizer.step() on a module's parameters: the parameters the optimizer
\* was given that have a gradient are moved
StepOf(module, name) ==
    IF name \in optimizer /\ module.grad = "set"
    THEN [module EXCEPT !.weight = @ + 1]
    ELSE module

InitTrain ==
    /\ SearchNotRun
    /\ KernelNotRun
    /\ MaeNotRun
    /\ RetrievalNotRun
    /\ pc6 = "freeze"
    /\ train_loader \in Loaders({"batch"})
    /\ val_loader \in Loaders(BatchSizes)
    /\ TrainNotRunYet

\* image_encoder = model.visual; image_encoder.eval();
\* for param in image_encoder.parameters(): param.requires_grad = False
FreezeEncoder ==
    /\ pc6 = "freeze"
    /\ image_encoder' = RequiresGrad(image_encoder, FALSE)
    /\ pc6' = "classifier"
    /\ UNCHANGED <<searchVars, maeVars, retrievalVars, kernelVars, classifier, optimizer,
                   train_loader, val_loader, epoch, batch, graph, loss,
                   total_loss, avg_loss, correct, total, val_acc, lines,
                   last_line, err6>>

\* classifier = nn.Linear(image_encoder.embed_dim, num_classes).to(device)
NewClassifier ==
    /\ pc6 = "classifier"
    /\ classifier' = NewParameters
    /\ pc6' = "optimizer"
    /\ UNCHANGED <<searchVars, maeVars, retrievalVars, kernelVars, image_encoder, optimizer,
                   train_loader, val_loader, epoch, batch, graph, loss,
                   total_loss, avg_loss, correct, total, val_acc, lines,
                   last_line, err6>>

\* optimizer = torch.optim.Adam(classifier.parameters(), lr=1e-3)
NewOptimizer ==
    /\ pc6 = "optimizer"
    /\ optimizer' = {"classifier"}
    /\ pc6' = "epoch"
    /\ UNCHANGED <<searchVars, maeVars, retrievalVars, kernelVars, image_encoder, classifier,
                   train_loader, val_loader, epoch, batch, graph, loss,
                   total_loss, avg_loss, correct, total, val_acc, lines,
                   last_line, err6>>

\* for epoch in range(10): classifier.train(); total_loss = 0
EpochStart ==
    /\ pc6 = "epoch"
    /\ IF epoch + 1 < Epochs
       THEN /\ epoch' = epoch + 1
            /\ total_loss' = 0
            /\ batch' = 0
            /\ pc6' = "train_batch"
       ELSE /\ UNCHANGED <<epoch, total_loss, batch>>
            /\ pc6' = "done"
    /\ UNCHANGED <<searchVars, maeVars, retrievalVars, kernelVars, image_encoder, classifier,
                   optimizer, train_loader, val_loader, graph, loss,
                   avg_loss, correct, total, val_acc, lines, last_line, err6>>

\* for images, labels in train_loader: with torch.no_grad(): feats =
\* image_encoder(images); logits = classifier(feats); loss = criterion(logits,
\* labels).  The features are computed without a graph, so the loss is
\* computed from the classifier's parameters alone.
TrainBatch ==
    /\ pc6 = "train_batch"
    /\ IF batch < Len(train_loader)
       THEN /\ batch' = batch + 1
            /\ graph' = {"classifier"}
            /\ loss' \in Losses
            /\ pc6' = "zero_grad"
       ELSE /\ UNCHANGED <<batch, graph, loss>>
            /\ pc6' = "avg_loss"
    /\ UNCHANGED <<searchVars, maeVars, retrievalVars, kernelVars, image_encoder, classifier,
                   optimizer, train_loader, val_loader, epoch,
                   total_loss, avg_loss, correct, total, val_acc, lines,
                   last_line, err6>>

\* optimizer.zero_grad()
ZeroGrad ==
    /\ pc6 = "zero_grad"
    /\ image_encoder' = ZeroGradOf(image_encoder, "image_encoder")
    /\ classifier' = ZeroGradOf(classifier, "classifier")
    /\ pc6' = "backward"
    /\ UNCHANGED <<searchVars, maeVars, retrievalVars, kernelVars, optimizer,
                   train_loader, val_loader, epoch, batch, graph, loss,
                   total_loss, avg_loss, correct, total, val_acc, lines,
                   last_line, err6>>

\* loss.backward()
Backward ==
    /\ pc6 = "backward"
    /\ image_encoder' = BackwardInto(image_encoder, "image_encoder")
    /\ classifier' = BackwardInto(classifier, "classifier")
    /\ pc6' = "step"
    /\ UNCHANGED <<searchVars, maeVars, retrievalVars, kernelVars, optimizer,
                   train_loader, val_loader, epoch, batch, graph, loss,
                   total_loss, avg_loss, correct, total, val_acc, lines,
                   last_line, err6>>

\* optimizer.step()
Step ==
    /\ pc6 = "step"
    /\ image_encoder' = StepOf(image_encoder, "image_encoder")
    /\ classifier' = StepOf(classifier, "classifier")
    /\ pc6' = "add_loss"
    /\ UNCHANGED <<searchVars, maeVars, retrievalVars, kernelVars, optimizer,
                   train_loader, val_loader, epoch, batch, graph, loss,
                   total_loss, avg_loss, correct, total, val_acc, lines,
                   last_line, err6>>

\* total_loss += loss.item()
AddLoss ==
    /\ pc6 = "add_loss"
    /\ total_loss' = total_loss + loss
    /\ pc6' = "train_batch"
    /\ UNCHANGED <<searchVars, maeVars, retrievalVars, kernelVars, image_encoder, classifier,
                   optimizer, train_loader, val_loader, epoch, batch, graph,
                   loss, avg_loss, correct, total, val_acc, lines,
                   last_line, err6>>

\* avg_loss = total_loss / len(train_loader)
AvgLoss ==
    /\ pc6 = "avg_loss"
    /\ IF Len(train_loader) # 0
       THEN /\ avg_loss' = [num |-> total_loss, den |-> Len(train_loader)]
            /\ pc6' = "val_start"
            /\ err6' = err6
       ELSE /\ avg_loss' = avg_loss
            /\ pc6' = "failed"
            /\ err6' = "ZeroDivisionError"
    /\ UNCHANGED <<searchVars, maeVars, retrievalVars, kernelVars, image_encoder, classifier,
                   optimizer, train_loader, val_loader, epoch, batch, graph,
                   loss, total_loss, correct, total, val_acc, lines, last_line>>

\* classifier.eval(); correct = total = 0
ValStart ==
    /\ pc6 = "val_start"
    /\ correct' = 0
    /\ total' = 0
    /\ batch' = 0
    /\ pc6' = "val_batch"
    /\ UNCHANGED <<searchVars, maeVars, retrievalVars, kernelVars, image_encoder, classifier,
                   optimizer, train_loader, val_loader, epoch, graph, loss,
                   total_loss, avg_loss, val_acc, lines, last_line, err6>>

\* with torch.no_grad(): for images, labels in val_loader: ...
\* correct += (preds == labels).sum().item(); total += labels.size(0)
ValBatch ==
    /\ pc6 = "val_batch"
    /\ IF batch < Len(val_loader)
       THEN /\ batch' = batch + 1
            /\ \E right \in 0..val_loader[batch + 1] : correct' = correct + right
            /\ total' = total + val_loader[batch + 1]
            /\ pc6' = "val_batch"
       ELSE /\ UNCHANGED <<batch, correct, total>>
            /\ pc6' = "val_acc"
    /\ UNCHANGED <<searchVars, maeVars, retrievalVars, kernelVars, image_encoder, classifier,
                   optimizer, train_loader, val_loader, epoch, graph, loss,
                   total_loss, avg_loss, val_acc, lines, last_line, err6>>

\* val_acc = correct / total
ValAcc ==
    /\ pc6 = "val_acc"
    /\ IF total # 0
       THEN /\ val_acc' = [num |-> correct, den |-> total]
            /\ pc6' = "print"
            /\ err6' = err6
       ELSE /\ val_acc' = val_acc
            /\ pc6' = "failed"
            /\ err6' = "ZeroDivisionError"
    /\ UNCHANGED <<searchVars, maeVars, retrievalVars, kernelVars, image_encoder, classifier,
                   optimizer, train_loader, val_loader, epoch, batch, graph,
                   loss, total_loss, avg_loss, correct, total, lines, last_line>>

\* print(f"Epoch {epoch+1}: Train loss {avg_loss:.3f}, Val acc {val_acc:.3%}")
PrintEpoch ==
    /\ pc6 = "print"
    /\ lines' = lines + 1
    /\ last_line' = <<epoch + 1, avg_loss, val_acc>>
    /\ pc6' = "epoch"
    /\ UNCHANGED <<searchVars, maeVars, retrievalVars, kernelVars, image_encoder, classifier,
                   optimizer, train_loader, val_loader, epoch, batch, graph,
                   loss, total_loss, avg_loss, correct, total, val_acc, err6>>

NextTrain ==
    \/ FreezeEncoder
    \/ NewClassifier
    \/ NewOptimizer
    \/ EpochStart
    \/ TrainBatch
    \/ ZeroGrad
    \/ Backward
    \/ Step
    \/ AddLoss
    \/ AvgLoss
    \/ ValStart
    \/ ValBatch
    \/ ValAcc
    \/ PrintEpoch

SpecTrain == InitTrain /\ [][NextTrain]_vars

----------------------------------------------------------------------------
(* The code cells of Notebook 5 and then of Notebook 6, executed in         *)
(* document order in one kernel.  A statement is the names it reads, in    *)
(* the order it evaluates them, and the names it binds; built-in names are *)
(* left out.  A cell runs its statements until one of them raises.         *)

Statement(line, reads, binds) ==
    [line |-> line, reads |-> reads, binds |-> binds, raises |-> "none"]

\* a statement that raises after it has read its names
Raising(line, reads, exception) ==
    [line |-> line, reads |-> reads, binds |-> {}, raises |-> exception]

\* Notebook 5, cell 992cc5cd: zero-shot classification
Cell_992cc5cd ==
    <<Statement(69, <<>>, {"CLIPProcessor", "CLIPModel"}),
      Statement(70, <<>>, {"Image"}),
      Statement(71, <<>>, {"requests"}),
      Statement(74, <<"CLIPModel">>, {"model"}),
      Statement(75, <<"CLIPProcessor">>, {"processor"}),
      Statement(78, <<>>, {"labels"}),
      Statement(81, <<>>, {"url"}),
      Statement(82, <<"Image", "requests", "url">>, {"image"}),
      Statement(85, <<"processor", "labels", "image">>, {"inputs"}),
      Statement(86, <<"model", "inputs">>, {"outputs"}),
      Statement(88, <<"outputs">>, {"logits_per_image"}),
      Statement(89, <<"logits_per_image">>, {"probs"}),
      Statement(90, <<"labels", "probs">>, {"label", "prob"})>>

\* Notebook 5, cell 9d460246: text-to-image retrieval
Cell_9d460246 ==
    <<Statement(136, <<"url1", "url2", "url3", "url4", "Image", "requests">>, {"image_list"}),
      Statement(137, <<>>, {"query"}),
      Statement(140, <<"processor", "image_list">>, {"image_inputs"}),
      Statement(141, <<"processor", "query">>, {"text_inputs"}),
      Statement(144, <<"torch">>, {}),
      Statement(145, <<"model", "image_inputs">>, {"image_features"}),
      Statement(146, <<"model", "text_inputs">>, {"text_features"}),
      Statement(148, <<"image_features">>, {"image_features"}),
      Statement(149, <<"text_features">>, {"text_features"}),
      Statement(151, <<"image_features", "text_features">>, {"sims"}),
      Statement(152, <<"sims">>, {"best_idx"}),
      Statement(153, <<"best_idx">>, {})>>

\* Notebook 5, cell 5f1d4f1e: the similarity matrix of 3 images and 3 texts
Cell_5f1d4f1e ==
    <<Statement(231, <<>>, {"Compose", "Resize", "CenterCrop", "ToTensor", "Normalize"}),
      Statement(232, <<>>, {"torch"}),
      Statement(235, <<>>, {"urls"}),
      Statement(240, <<"urls", "Image", "requests">>, {"images"}),
      Statement(242, <<"Compose", "Resize", "Image", "CenterCrop", "ToTensor", "Normalize">>, {"preprocess"}),
      Statement(248, <<"torch", "images", "preprocess">>, {"image_tensors"}),
      Statement(249, <<>>, {"texts"}),
      Statement(252, <<"torch">>, {}),
      Statement(253, <<"model", "image_tensors">>, {"img_features"}),
      Statement(254, <<"model", "processor", "texts">>, {"text_features"}),
      Statement(256, <<"img_features">>, {"img_features"}),
      Statement(257, <<"text_features">>, {"text_features"}),
      Statement(259, <<"img_features", "text_features">>, {"sim_matrix"}),
      Statement(260, <<"sim_matrix">>, {"sim_matrix"}),
      Statement(261, <<"sim_matrix">>, {})>>

\* Notebook 6, cell 89054666: the frozen encoder and its classifier.  model is
\* the transformers CLIPModel of Notebook 5, which has no attribute visual
Cell_89054666 ==
    <<Statement(36, <<>>, {"torch"}),
      Statement(37, <<>>, {"nn"}),
      Raising(41, <<"model">>, "AttributeError"),
      Statement(42, <<"image_encoder">>, {}),
      Statement(43, <<"image_encoder">>, {"param"}),
      Statement(47, <<>>, {"num_classes"}),
      Statement(48, <<"nn", "image_encoder", "num_classes", "device">>, {"classifier"}),
      Statement(51, <<"torch", "classifier">>, {"optimizer"}),
      Statement(52, <<"nn">>, {"criterion"})>>

\* Notebook 6, cell 9622dbd9: the training loop, its first pass through each body
Cell_9622dbd9 ==
    <<Statement(70, <<>>, {"epoch"}),
      Statement(71, <<"classifier">>, {}),
      Statement(72, <<>>, {"total_loss"}),
      Statement(73, <<"train_loader">>, {"images", "labels"}),
      Statement(74, <<"images", "device", "labels">>, {"images", "labels"}),
      Statement(76, <<"torch">>, {}),
      Statement(77, <<"image_encoder", "images">>, {"feats"}),
      Statement(78, <<"classifier", "feats">>, {"logits"}),
      Statement(79, <<"criterion", "logits", "labels">>, {"loss"}),
      Statement(80, <<"optimizer">>, {}),
      Statement(81, <<"loss">>, {}),
      Statement(82, <<"optimizer">>, {}),
      Statement(83, <<"total_loss", "loss">>, {"total_loss"}),
      Statement(84, <<"total_loss", "train_loader">>, {"avg_loss"}),
      Statement(86, <<"classifier">>, {}),
      Statement(87, <<>>, {"correct", "total"}),
      Statement(88, <<"torch">>, {}),
      Statement(89, <<"val_loader">>, {"images", "labels"}),
      Statement(90, <<"images", "device", "labels">>, {"images", "labels"}),
      Statement(91, <<"image_encoder", "images">>, {"feats"}),
      Statement(92, <<"classifier", "feats">>, {"logits"}),
      Statement(93, <<"logits">>, {"preds"}),
      Statement(94, <<"correct", "preds", "labels">>, {"correct"}),
      Statement(95, <<"total", "labels">>, {"total"}),
      Statement(96, <<"correct", "total">>, {"val_acc"}),
      Statement(97, <<"epoch", "avg_loss", "val_acc">>, {})>>

\* Notebook 6, cell 84bd70b7: the embedding search engine
Cell_84bd70b7 ==
    <<Statement(122, <<>>, {"faiss"}),
      Statement(125, <<"img_features">>, {"img_features_array"}),
      Statement(128, <<"faiss", "image_encoder">>, {"index"}),
      Statement(129, <<"index", "img_features_array">>, {}),
      Statement(132, <<"image_encoder", "preprocess", "query_image", "device">>, {"query_feat"}),
      Statement(133, <<"query_feat">>, {"query_feat"}),
      Statement(134, <<"query_feat">>, {"query_feat_np"}),
      Statement(135, <<"index", "query_feat_np">>, {"D", "I"}),
      Statement(136, <<"I">>, {})>>

\* Notebook 6, cell 51db388c: a prompt embedding.  text_projection of the
\* transformers CLIPModel is an nn.Linear, which has no attribute shape
Cell_51db388c ==
    <<Raising(186, <<"torch", "model">>, "AttributeError")>>

\* Notebook 6, cell e9d534f0: images against two texts
Cell_e9d534f0 ==
    <<Statement(232, <<>>, {"texts"}),
      Statement(233, <<"model", "processor", "texts", "device">>, {"text_feats"}),
      Statement(234, <<"text_feats">>, {"text_feats"}),
      Statement(235, <<"model", "processor", "images", "device">>, {"image_feats"}),
      Statement(236, <<"image_feats">>, {"image_feats"}),
      Statement(237, <<"image_feats", "text_feats">>, {"sims"})>>

\* the names the notebooks use and no cell binds; the session may have them
\* bound from outside ("Assume we have train_loader and val_loader")
AssumedNames ==
    {"url1", "url2", "url3", "url4", "train_loader", "val_loader",
     "query_image", "device"}

\* the places of the names of reads that are not bound
UnboundAt(reads, bound) == {i \in 1..Len(reads) : reads[i] \notin bound}

\* the first name of reads that is not bound: Python raises NameError for it
FirstUnbound(reads, bound) ==
    reads[CHOOSE i \in UnboundAt(reads, bound) :
              \A j \in UnboundAt(reads, bound) : i <= j]

\* the names of reads
Names(reads) == {reads[i] : i \in 1..Len(reads)}

\* The statements of a cell from number i on, with the names in bound bound
\* by cells: what the cell leaves bound, the names it read that no cell had
\* bound, and the exception that ended it, if one did.
RECURSIVE Execute(_, _, _, _)
Execute(stmts, i, bound, outside) ==
    IF i > Len(stmts)
    THEN [bound |-> bound, outside |-> outside, error |-> <<>>]
    ELSE IF UnboundAt(stmts[i].reads, bound \cup user_names) # {}
    THEN [bound |-> bound, outside |-> outside,
          error |-> <<[line |-> stmts[i].line, kind |-> "NameError",
                       name |-> FirstUnbound(stmts[i].reads, bound \cup user_names)]>>]
    ELSE IF stmts[i].raises # "none"
    THEN [bound |-> bound,
          outside |-> outside \cup (Names(stmts[i].reads) \ bound),
          error |-> <<[line |-> stmts[i].line, kind |-> stmts[i].raises,
                       name |-> "none"]>>]
    ELSE Execute(stmts, i + 1, bound \cup stmts[i].binds,
                 outside \cup (Names(stmts[i].reads) \ bound))

\* code cell number n is executed
RunCell(n, stmts) ==
    /\ next_cell = n
    /\ \E r \in {Execute(stmts, 1, cell_names, outside_reads)} :
           /\ cell_names' = r.bound
           /\ outside_reads' = r.outside
           /\ errors' = errors \cup
                  {[cell |-> n, line |-> r.error[e].line, kind |-> r.error[e].kind,
                    name |-> r.error[e].name] : e \in 1..Len(r.error)}
    /\ next_cell' = n + 1
    /\ UNCHANGED <<searchVars, maeVars, retrievalVars, trainVars, user_names>>

InitKernel ==
    /\ SearchNotRun
    /\ MaeNotRun
    /\ RetrievalNotRun
    /\ TrainNotRun
    /\ next_cell = 1
    /\ user_names \in SUBSET AssumedNames
    /\ cell_names = {}
    /\ outside_reads = {}
    /\ errors = {}

Run_992cc5cd == RunCell(1, Cell_992cc5cd)

Run_9d460246 == RunCell(2, Cell_9d460246)

Run_5f1d4f1e == RunCell(3, Cell_5f1d4f1e)

Run_89054666 == RunCell(4, Cell_89054666)

Run_9622dbd9 == RunCell(5, Cell_9622dbd9)

Run_84bd70b7 == RunCell(6, Cell_84bd70b7)

Run_51db388c == RunCell(7, Cell_51db388c)

Run_e9d534f0 == RunCell(8, Cell_e9d534f0)

NextKernel ==
    \/ Run_992cc5cd
    \/ Run_9d460246
    \/ Run_5f1d4f1e
    \/ Run_89054666
    \/ Run_9622dbd9
    \/ Run_84bd70b7
    \/ Run_51db388c
    \/ Run_e9d534f0

SpecKernel == InitKernel /\ [][NextKernel]_vars

----------------------------------------------------------------------------
(* The retrieval contract, stated over the cell.  The records of the       *)
(* contract are the rows of img_features and a record's identifier is its  *)
(* row number, which is the label FAISS returns for it.                    *)

\* the cell has received an answer from index.search
Answered == pc \in {"print", "done"}

\* the contract's search: the result at place a is the stored vector with
\* a - 1 vectors ahead of it by (score descending, identifier ascending)
ContractLabels(idx, q, kk) ==
    [a \in 1..Min(kk, idx.ntotal) |->
        CHOOSE i \in 0..(idx.ntotal - 1) : Rank(idx, q, i) = a - 1]

\* C1: a search on a non-empty index returns (id, score) pairs whose score is
\* the inner product of the query with the stored embedding, ordered by
\* descending score with ties broken by ascending identifier (stated for
\* k <= ntotal, where every result slot is filled).
C1_OrderedByScoreThenId ==
    (Answered /\ index.ntotal > 0 /\ k <= index.ntotal) =>
        /\ I[1] = ContractLabels(index, query_feat_np.rows[1], k)
        /\ \A a \in 1..k :
               D[1][a] = ScoreOf(index, query_feat_np.rows[1], I[1][a])

\* C2: a search on a non-empty index of size n returns exactly min(k, n)
\* results, none of them a placeholder.
C2_ExactlyMinKN ==
    (Answered /\ index.ntotal > 0) =>
        /\ Len(I[1]) = Min(k, index.ntotal)
        /\ Len(D[1]) = Min(k, index.ntotal)
        /\ \A a \in 1..Len(I[1]) : I[1][a] # NO_LABEL

C7_MismatchRejectedBeforeMutation ==
    [][ /\ (pc = "add" /\ img_features_array.shape[2] # index.d) =>
               /\ err' = "AssertionError"
               /\ pc' = "failed"
               /\ <<img_features, img_features_array, index, D, I>>' =
                      <<img_features, img_features_array, index, D, I>>
        /\ (pc = "search" /\ query_feat_np.shape[2] # index.d) =>
               /\ err' = "AssertionError"
               /\ pc' = "failed"
               /\ <<img_features, img_features_array, index, D, I>>' =
                      <<img_features, img_features_array, index, D, I>>
      ]_vars

C7_Witness ==
    /\ pc = "failed"
    /\ err = "AssertionError"
    /\ img_features_array.shape[1] > 0
    /\ img_features_array.shape[2] # index.d
    /\ index.ntotal = 0

\* C8: every embedding the index stores has exactly the index's dimension,
\* and ntotal counts the stored embeddings.
C8_StoredDimensionIsD ==
    /\ index.ntotal = Len(index.xb)
    /\ \A i \in 1..Len(index.xb) : Len(index.xb[i].v) = index.d

C8_Witness ==
    /\ index.ntotal >= 2
    /\ index.d = 2
    /\ pc = "done"

\* C9: a search on an index built over zero records fails with EmptyIndex
\* and returns nothing; a non-empty index never yields EmptyIndex.
C9_EmptyIndexFails ==
    /\ Answered => index.ntotal > 0
    /\ (pc = "failed" /\ index.ntotal > 0) => err # "EmptyIndex"

C13_KClampedToSize ==
    /\ (pc = "failed" /\ index.ntotal > 0) => query_feat_np.shape[2] # index.d
    /\ (Answered /\ index.ntotal > 0) =>
           /\ Len(I[1]) >= 1
           /\ Len(I[1]) <= index.ntotal

UnitLength(x) == x.den2 = Dot(x.v, x.v)

C26_InnerProductIsCosine ==
    (pc = "search" \/ Answered) =>
        /\ \A r \in 1..Len(query_feat_np.rows) :
               query_feat_np.rows[r] =
                   [v |-> query_image.rows[r].v,
                    den2 |-> Dot(query_image.rows[r].v, query_image.rows[r].v)]
        /\ \A i \in 1..Len(index.xb) :
               index.xb[i].den2 = Dot(index.xb[i].v, index.xb[i].v)
        /\ Answered =>
               \A a \in 1..Len(I[1]) :
                   I[1][a] # NO_LABEL =>
                       D[1][a] =
                           [num |-> Dot(query_image.rows[1].v, index.xb[I[1][a] + 1].v),
                            den2 |-> Dot(query_image.rows[1].v, query_image.rows[1].v)
                                       * Dot(index.xb[I[1][a] + 1].v, index.xb[I[1][a] + 1].v)]

C26_Witness ==
    /\ pc = "done"
    /\ index.ntotal = MaxN
    /\ I[1][1] # NO_LABEL
    /\ Dot(index.xb[I[1][1] + 1].v, index.xb[I[1][1] + 1].v) > 1
    /\ Dot(query_image.rows[1].v, query_image.rows[1].v) > 1
    /\ D[1][1].num > 0

\* C27: the mask of the MAE cell has exactly num_patches =
\* (image_size // patch_size)^2 entries, which is 196 for an image of 224 and
\* patches of 16, and on every run it masks 75% of the patches (stated for
\* the numbers of patches of which 75% is a whole number).
C27_MaskCoversThreeQuarters ==
    /\ (ViTMaeImageSize \div ViTMaePatchSize) * (ViTMaeImageSize \div ViTMaePatchSize) = 196
    /\ pc4 = "forward" =>
           /\ num_patches = (image_size \div patch_size) * (image_size \div patch_size)
           /\ Len(mask) = num_patches
           /\ num_patches % 4 = 0 => 4 * Masked(mask, Len(mask)) = 3 * num_patches

\* the gallery of cell 9d460246 as an index: the identifier of an image is
\* its position in image_list
GalleryIndex ==
    [d |-> image_features.shape[2],
     ntotal |-> image_features.shape[1],
     xb |-> image_features.rows]

\* C25: best_idx is a position of image_list, of an image whose inner
\* product with the query is maximal and, of those, the one at the lowest
\* position: the item the contract's search returns for k = 1.  This holds
\* for every gallery of at least one image, a single image included.
C25_ArgmaxIsTop1 ==
    pc5 = "print" =>
        /\ best_idx \in 0..(image_features.shape[1] - 1)
        /\ \A j \in 0..(image_features.shape[1] - 1) :
               /\ ~ScoreLess(ScoreOf(GalleryIndex, text_features.rows[1], best_idx),
                             ScoreOf(GalleryIndex, text_features.rows[1], j))
               /\ j < best_idx =>
                      ScoreLess(ScoreOf(GalleryIndex, text_features.rows[1], j),
                                ScoreOf(GalleryIndex, text_features.rows[1], best_idx))
        /\ <<best_idx>> = ContractLabels(GalleryIndex, text_features.rows[1], 1)

C25_Witness ==
    /\ pc5 = "print"
    /\ image_features.shape[1] = MaxN
    /\ best_idx < MaxN - 1
    /\ ScoreEq(sims.data[best_idx + 1], sims.data[MaxN])

\* C23: the image encoder is frozen through all the epochs and batches of
\* the training loop: no statement after the freeze changes its parameters,
\* so they are after the loop what they were before it, and optimizer.step()
\* moves the classifier's parameters and nothing else.
C23_EncoderFrozen ==
    [][ /\ pc6 # "freeze" => image_encoder' = image_encoder
        /\ pc6 = "step" =>
               /\ classifier'.weight = classifier.weight + 1
               /\ image_encoder'.weight = image_encoder.weight
      ]_vars

C23_Witness ==
    /\ pc6 = "done"
    /\ lines = Epochs
    /\ Len(train_loader) = MaxBatches
    /\ classifier.weight = Epochs * MaxBatches
    /\ image_encoder = [weight |-> 0, requires_grad |-> FALSE, grad |-> "None"]

\* the number of labels of the first n batches of a loader
RECURSIVE LabelsIn(_, _)
LabelsIn(loader, n) == IF n = 0 THEN 0 ELSE loader[n] + LabelsIn(loader, n - 1)

\* C24: the loop runs exactly 10 epochs and prints one line for each; the
\* sums of an epoch start from 0, so when val_acc is computed correct is in
\* 0..total, total is the number of validation labels and total_loss is the
\* sum of that epoch's losses only; and avg_loss and val_acc are defined for
\* every pair of loaders: the loop never ends in a division by zero.
C24_EpochAccounting ==
    /\ err6 = "none"
    /\ pc6 # "failed"
    /\ pc6 = "done" => (epoch = Epochs - 1 /\ lines = Epochs)
    /\ pc6 \in {"val_acc", "print"} =>
           /\ 0 <= correct
           /\ correct <= total
           /\ total = LabelsIn(val_loader, Len(val_loader))
           /\ total_loss <= 2 * Len(train_loader)
           /\ lines = epoch

\* C22: executing the code cells of Notebook 5 and then of Notebook 6 in
\* document order, every name a cell reads has been bound by an earlier
\* statement of an executed cell: no cell ends in a NameError and no cell
\* reads a name that only the session outside the cells has bound.
C22_NamesBoundByEarlierCell ==
    /\ outside_reads = {}
    /\ \A e \in errors : e.kind # "NameError"

====
